---- MODULE Spec2Model ----
(***************************************************************************)
(* PREDIX AI prediction engine (ai-engine/src/prediction_engine.py) with   *)
(* the host operations that reach it (ai-engine/src/api_server.py,         *)
(* ai-engine/main.py) and the ledger (ai-engine/src/blockchain_interface). *)
(*                                                                         *)
(* Probabilities and thresholds are integers in percent (0.6 is 60).       *)
(* An accuracy correct/total is kept as the pair <<correct, total>> and    *)
(* compared with a threshold by cross-multiplication.                      *)
(*                                                                         *)
(* The engine runs on one asyncio event loop: a coroutine runs without     *)
(* interruption until it awaits something that really suspends.  In        *)
(* generate_prediction only the feature fetch suspends (it awaits network  *)
(* I/O); sign_message is declared async but contains no await, so awaiting *)
(* it does not yield to the loop.  Every other engine operation runs to    *)
(* completion in one step.                                                 *)
(*                                                                         *)
(* The ledger (rounds) records for which recorded prediction each round    *)
(* was opened.  The engine never reads it: a round identifier reaches the  *)
(* engine only as the round_id argument of update_prediction_result.       *)
(* outcomes and generated are logs kept for stating the properties; no     *)
(* action reads them except to bound the log.                              *)
(*                                                                         *)
(* Strings that are concatenated (the message that is signed) are          *)
(* sequences of one-character strings; a digest or a signature is its      *)
(* argument under a tag, so both are injective.                            *)
(*                                                                         *)
(* Spec is the engine under the host's operations.  SpecCap, SpecLoss,     *)
(* SpecCycle and SpecFail drive it along particular runs (past the history *)
(* capacity, a losing streak, the scheduled cycle, failing collaborators). *)
(* SpecConfig starts from any environment, SpecRisk from any value of the  *)
(* risk counters, and SpecAttest applies the attestation to drawn inputs.  *)
(* SpecRecent adds the history reader, SpecCount follows the counters past *)
(* the history capacity, and SpecOutcome runs the outcome update on        *)
(* history entries that carry a round_id.                                  *)
(***************************************************************************)
EXTENDS Integers, Sequences, FiniteSets, TLC

\* ---------------------------------------------------------------- bounds
NumTasks == 2           \* concurrent callers of generate_prediction
MaxPredictions == 2     \* cap on total_predictions under Spec
MaxUpdates == 2         \* cap on the logged outcome updates under Spec
MaxRounds == 3          \* round identifiers the ledger hands out
CapSlack == 2           \* predictions recorded beyond the capacity under SpecCap
RiskMaxTotal == 5       \* largest total_predictions drawn under SpecRisk
AttestMaxTime == 3      \* latest timestamp (in ticks) drawn under SpecAttest
OutcomeMaxCorrect == 3  \* cap on correct_predictions under SpecOutcome
OutcomeMaxUpdates == 4  \* cap on the logged outcome updates under SpecOutcome
MaxLimit == 3           \* largest limit passed to get_recent_predictions
HashWidth == 2          \* characters of a hex digest drawn under SpecAttest
TicksPerSecond == 2     \* clock ticks in a second (the resolution of a datetime)
SecondsWidth == 4       \* characters of the whole seconds in an ISO timestamp
FractionWidth == 1      \* characters of the fraction in an ISO timestamp

\* ------------------------------------------------------ program constants
HISTORY_CAP == 100
MIN_PREDICTIONS_FOR_ACCURACY == 10
CONFIDENCE_THRESHOLD == 60
MAX_CONSECUTIVE_LOSSES == 3
EMERGENCY_STOP_THRESHOLD == 30
CLASS_CUTOFF == 50
SEQUENCE_LENGTH == 60
FEATURE_COUNT == 20
BATCH_SIZE == 32
MIN_CONFIDENCE_THRESHOLD == 50
MAX_CONFIDENCE_THRESHOLD == 100
MIN_SEQUENCE_LENGTH == 10

Tasks == 1..NumTasks
RoundIds == 1..MaxRounds
Outcomes == {0, 1}               \* 0 = UP, 1 = DOWN
None == "None"
NoTime == 0                      \* last_prediction_time is None
Raise == "Raise"                 \* a collaborator call that raises
Features == {"window"}
OVERRIDE_CONFIDENCE == 90        \* the default confidence of manual_override
OverrideConfidences == {OVERRIDE_CONFIDENCE, 55}
DummyFeatures == {"dummy"}       \* the random array manual_override draws
Probs == {55, 60}                \* classifier outputs: below / at the threshold

VARIABLES
  consecutive_losses,    \* self.consecutive_losses
  total_predictions,     \* self.total_predictions
  correct_predictions,   \* self.correct_predictions
  prediction_history,    \* self.prediction_history
  emergency_stop,        \* self.emergency_stop
  last_prediction_time,  \* self.last_prediction_time (None before the first)
  pc,                    \* per caller: "idle" or "fetching" (suspended in generate_prediction)
  clock,                 \* value the next datetime.now() returns
  rounds,                \* ledger: round id -> the round opened under it
  outcomes,              \* log of the outcome updates for recorded predictions since the
                         \* loss counter was last reset: TRUE = correct
  generated,             \* log of every result generate_prediction returned
  last,                  \* the most recent call: its operation and arguments, what it
                         \* returned and which collaborators it called
  config,                \* self.config: the options the engine consumes
  phase,                 \* "constructing", "running" or "aborted" (Config() raised)
  cycle                  \* per caller: where its run_prediction_cycle stands

vars == <<consecutive_losses, total_predictions, correct_predictions,
          prediction_history, emergency_stop, last_prediction_time,
          pc, clock, rounds, outcomes, generated, last, config, phase, cycle>>

setup == <<config, phase>>
host == <<config, phase, cycle>>

engine == <<consecutive_losses, total_predictions, correct_predictions,
            prediction_history, emergency_stop, last_prediction_time>>

\* ------------------------------------------------------------ pure parts

\* hashlib.sha256(x).hexdigest(): collision-free on the values of the model
Sha256(x) == <<"sha256", x>>

\* ModelTrainer.predict: class is int(prob > 0.5), confidence is the raw prob
PredictClass(prob) == IF prob > CLASS_CUTOFF THEN 1 ELSE 0

\* _calculate_accuracy: 0.0 without predictions, else correct / total
CalculateAccuracyFloor(correct, total) ==
  IF total = 0 THEN <<0, 1>> ELSE <<correct \div total, 1>>
CalculateAccuracy(correct, total) ==
  IF total = 0 THEN <<0, 1>> ELSE <<correct, total>>

\* acc < pct / 100
AccLt(acc, pct) == acc[1] * 100 < pct * acc[2]
\* acc >= pct / 100
AccGe(acc, pct) == ~AccLt(acc, pct)

\* the emergency check at the head of generate_prediction
HaltedOff(stop) == FALSE
Halted(stop) == stop

\* the except clause of generate_prediction: the error is logged, None returned
Propagate(raised_in) == "raised"
ExceptReturn(raised_in) == None

\* the confidence gate of generate_prediction
BelowThresholdInclusive(confidence) == confidence <= config.CONFIDENCE_THRESHOLD
BelowThreshold(confidence) == confidence < config.CONFIDENCE_THRESHOLD

\* strings are sequences of one-character strings
Digits == <<"0", "1", "2", "3", "4", "5", "6", "7", "8", "9">>
Digit(n) == Digits[n + 1]

\* str(n) of a non-negative int
RECURSIVE Str(_)
Str(n) == IF n < 10 THEN <<Digit(n)>> ELSE Str(n \div 10) \o <<Digit(n % 10)>>

\* n in decimal, zero-padded to width w
RECURSIVE Pad(_, _)
Pad(n, w) == IF w = 0 THEN <<>> ELSE Pad(n \div 10, w - 1) \o <<Digit(n % 10)>>

\* datetime.isoformat(): a datetime is a count of clock ticks; the whole seconds
\* print at a fixed width, the fraction prints only when it is not zero
IsoFormatSeconds(timestamp) == Pad(timestamp \div TicksPerSecond, SecondsWidth)
IsoFormat(timestamp) ==
  LET fraction == timestamp % TicksPerSecond
  IN Pad(timestamp \div TicksPerSecond, SecondsWidth)
       \o (IF fraction = 0 THEN <<>> ELSE <<".">> \o Pad(fraction, FractionWidth))

\* the canonical message of _create_signature_hash:
\* f"{direction}{timestamp}{features_hash}", timestamp already in ISO format
Message(direction, timestamp, features_hash) ==
  Str(direction) \o timestamp \o features_hash

\* the outcomes of the external sign call
Signers == {"signed", "failed", "raised"}

\* sign_message: the signature of the message, or "" when signing fails inside it
\* (the error is swallowed)
SignMessage(message, signer) == IF signer = "signed" THEN <<"sig", message>> ELSE <<>>

\* str(prediction_data)
StrOf(prediction_data) == <<"str", prediction_data>>

\* _create_signature_hash: the digest of the signature; when the sign call itself
\* raises, the digest of str(prediction_data)
CreateSignatureHash(prediction_data, signer) ==
  IF signer = "raised"
  THEN Sha256(StrOf(prediction_data))
  ELSE Sha256(SignMessage(Message(prediction_data.direction, prediction_data.timestamp,
                                  prediction_data.features_hash), signer))

\* the prediction_data dict of _create_prediction_result
PredictionData(direction, confidence, features, now) ==
  [direction |-> direction,
   confidence |-> confidence,
   timestamp |-> IsoFormat(now),
   features_hash |-> Sha256(features),
   model_version |-> "v1.0"]

\* _create_prediction_result: the PredictionResult dataclass, which has no round_id
CreatePredictionResultByLength(direction, confidence, features, signer, now) ==
  [direction |-> direction,
   confidence |-> confidence,
   timestamp |-> now,
   features_hash |-> Sha256(features),
   signature_hash |->
     CreateSignatureHash(PredictionData(direction, confidence, features, now), signer),
   model_version |-> "v1.0",
   metadata |-> [total_predictions |-> Len(prediction_history),
                 consecutive_losses |-> consecutive_losses,
                 accuracy |-> CalculateAccuracy(correct_predictions, total_predictions)]]
CreatePredictionResult(direction, confidence, features, signer, now) ==
  [direction |-> direction,
   confidence |-> confidence,
   timestamp |-> now,
   features_hash |-> Sha256(features),
   signature_hash |->
     CreateSignatureHash(PredictionData(direction, confidence, features, now), signer),
   model_version |-> "v1.0",
   metadata |-> [total_predictions |-> total_predictions,
                 consecutive_losses |-> consecutive_losses,
                 accuracy |-> CalculateAccuracy(correct_predictions, total_predictions)]]

\* history[-n:] for n >= 1
LastN(h, n) ==
  IF Len(h) <= n THEN h ELSE SubSeq(h, Len(h) - n + 1, Len(h))

\* history[-limit:] as Python evaluates it for any integer limit: the start
\* index -limit counts from the end when it is negative and from the front
\* otherwise (-0 is 0), and is clipped to the sequence
SliceFrom(h, start) ==
  LET first == IF start < 0
               THEN (IF Len(h) + start < 0 THEN 0 ELSE Len(h) + start)
               ELSE (IF start > Len(h) THEN Len(h) ELSE start)
  IN SubSeq(h, first + 1, Len(h))
LastLimit(h, limit) == SliceFrom(h, 0 - limit)

\* signature_hash[:16] + '...'
Truncate16(digest) == <<"first16", digest, "...">>

\* the dict get_recent_predictions builds for one prediction
RecentView(pred) ==
  [direction |-> IF pred.direction = 0 THEN "UP" ELSE "DOWN",
   confidence |-> pred.confidence,
   timestamp |-> IsoFormat(pred.timestamp),
   signature_hash |-> Truncate16(pred.signature_hash),
   metadata |-> pred.metadata]

\* the trim after the append in generate_prediction
KeepAll(h) == h
KeepFirst100(h) == IF Len(h) > HISTORY_CAP THEN SubSeq(h, 1, HISTORY_CAP) ELSE h
KeepLast100(h) == IF Len(h) > HISTORY_CAP THEN LastN(h, HISTORY_CAP) ELSE h

\* hasattr(pred, 'round_id') and pred.round_id == round_id
MatchesAnyRound(pred, round_id) == TRUE
MatchesRound(pred, round_id) ==
  "round_id" \in DOMAIN pred /\ pred.round_id = round_id

\* the lookup loop of update_prediction_result: index of the first match, 0 if none
FindPrediction(h, round_id) ==
  LET hits == {i \in 1..Len(h) : MatchesRound(h[i], round_id)}
  IN IF hits = {} THEN 0 ELSE CHOOSE i \in hits : \A j \in hits : i <= j

\* _check_emergency_conditions: the value of emergency_stop it leaves
CheckEmergencyConditionsStrict(stop, losses, correct, total) ==
  LET accuracy == CalculateAccuracy(correct, total)
  IN IF losses > config.MAX_CONSECUTIVE_LOSSES THEN TRUE
     ELSE IF total >= MIN_PREDICTIONS_FOR_ACCURACY
             /\ AccLt(accuracy, config.EMERGENCY_STOP_THRESHOLD) THEN TRUE
     ELSE IF stop /\ losses = 0 /\ AccGe(accuracy, config.CONFIDENCE_THRESHOLD) THEN FALSE
     ELSE stop
CheckEmergencyConditions(stop, losses, correct, total) ==
  LET accuracy == CalculateAccuracy(correct, total)
  IN IF losses >= config.MAX_CONSECUTIVE_LOSSES THEN TRUE
     ELSE IF total >= MIN_PREDICTIONS_FOR_ACCURACY
             /\ AccLt(accuracy, config.EMERGENCY_STOP_THRESHOLD) THEN TRUE
     ELSE IF stop /\ losses = 0 /\ AccGe(accuracy, config.CONFIDENCE_THRESHOLD) THEN FALSE
     ELSE stop

\* ------------------------------------------------------------- the ledger
NoRound == [open |-> FALSE, resolved |-> FALSE]

\* create_round derives the round id from the wall clock: ids are fresh and increasing
NextRoundId == Cardinality({r \in RoundIds : rounds[r].open}) + 1

\* the recorded prediction a round was opened for, 0 if none (any more)
RecordedFor(round_id) ==
  IF ~rounds[round_id].open THEN 0
  ELSE LET hits == {i \in 1..Len(prediction_history) :
                      prediction_history[i].timestamp = rounds[round_id].timestamp}
       IN IF hits = {} THEN 0 ELSE CHOOSE i \in hits : TRUE

Published(i) ==
  \E r \in RoundIds : rounds[r].open
                      /\ rounds[r].timestamp = prediction_history[i].timestamp

\* the Config dataclass with the defaults of its fields and a PRIVATE_KEY, which
\* has no usable default, taken from the environment
DefaultConfig ==
  [PRIVATE_KEY |-> "0xkey",
   WEB3_PROVIDER_URL |-> "https://rpc-amoy.polygon.technology/",
   BATCH_SIZE |-> BATCH_SIZE,
   CONFIDENCE_THRESHOLD |-> CONFIDENCE_THRESHOLD,
   MAX_CONSECUTIVE_LOSSES |-> MAX_CONSECUTIVE_LOSSES,
   EMERGENCY_STOP_THRESHOLD |-> EMERGENCY_STOP_THRESHOLD,
   SEQUENCE_LENGTH |-> SEQUENCE_LENGTH,
   FEATURE_COUNT |-> FEATURE_COUNT]

\* ------------------------------------------------------------------- Init
Init ==
  /\ consecutive_losses = 0
  /\ total_predictions = 0
  /\ correct_predictions = 0
  /\ prediction_history = <<>>
  /\ emergency_stop = FALSE
  /\ last_prediction_time = NoTime
  /\ pc = [t \in Tasks |-> "idle"]
  /\ clock = 1
  /\ rounds = [r \in RoundIds |-> NoRound]
  /\ outcomes = <<>>
  /\ generated = <<>>
  /\ last = [op |-> "init", ret |-> None, calls |-> {}]
  /\ config = DefaultConfig
  /\ phase = "running"
  /\ cycle = [t \in Tasks |-> "none"]

\* ---------------------------------------------------------------- actions

\* generate_prediction up to its suspension in the feature fetch
GenerateStart(t) ==
  /\ phase = "running"
  /\ pc[t] = "idle"
  /\ IF Halted(emergency_stop)
     THEN /\ last' = [op |-> "generate_prediction", ret |-> None,
                      why |-> "halted", calls |-> {}]
          /\ UNCHANGED pc
     ELSE /\ last' = [op |-> "generate_prediction", ret |-> "pending",
                      why |-> "fetching", calls |-> {"get_latest_features"}]
          /\ pc' = [pc EXCEPT ![t] = "fetching"]
  /\ UNCHANGED <<engine, clock, rounds, outcomes, generated, setup>>

\* generate_prediction from the return of the feature fetch to its own return:
\* features is the window, None or Raise (the provider raises), ready is whether
\* predict returns or raises (no trained model),
\* prob is the probability predict returns, signer is the outcome of the sign call
GenerateFinish(t, features, ready, prob, signer, cap) ==
  /\ pc[t] = "fetching"
  /\ pc' = [pc EXCEPT ![t] = "idle"]
  /\ IF features = None
     THEN /\ last' = [op |-> "generate_prediction_return", ret |-> None,
                      why |-> "no_features", calls |-> {}]
          /\ UNCHANGED <<engine, clock, generated>>
     ELSE IF features = Raise
     THEN /\ last' = [op |-> "generate_prediction_return",
                      ret |-> ExceptReturn("get_latest_features"),
                      why |-> "exception", calls |-> {}]
          /\ UNCHANGED <<engine, clock, generated>>
     ELSE IF ~ready
     THEN /\ last' = [op |-> "generate_prediction_return",
                      ret |-> ExceptReturn("predict"),
                      why |-> "exception", calls |-> {"predict"}]
          /\ UNCHANGED <<engine, clock, generated>>
     ELSE IF BelowThreshold(prob)
     THEN /\ last' = [op |-> "generate_prediction_return", ret |-> None,
                      why |-> "low_confidence", calls |-> {"predict"},
                      confidence |-> prob]
          /\ UNCHANGED <<engine, clock, generated>>
     ELSE LET result == CreatePredictionResult(PredictClass(prob), prob,
                                               features, signer, clock)
          IN /\ total_predictions < cap
             /\ total_predictions' = total_predictions + 1
             /\ last_prediction_time' = clock + 1
             /\ clock' = clock + 2
             /\ prediction_history' = KeepLast100(Append(prediction_history, result))
             /\ generated' = Append(generated, result)
             /\ last' = [op |-> "generate_prediction_return",
                         ret |-> "PredictionResult", result |-> result,
                         why |-> "generated", signer |-> signer,
                         calls |-> {"predict", "sign_message"},
                         confidence |-> prob]
             /\ UNCHANGED <<consecutive_losses, correct_predictions, emergency_stop>>
  /\ UNCHANGED <<rounds, outcomes, setup>>

\* POST /predictions/generate calling generate_prediction
GeneratePrediction(t) ==
  /\ cycle[t] # "running"
  /\ GenerateStart(t)
  /\ UNCHANGED cycle

\* the return of the feature fetch to a generate_prediction called by the API
ResumePrediction(t, features, ready, prob, signer, cap) ==
  /\ cycle[t] # "running"
  /\ GenerateFinish(t, features, ready, prob, signer, cap)
  /\ UNCHANGED cycle

\* the ledger opens a round for the newest recorded prediction: create_round(
\* direction, signature_hash) succeeding and returning the round id
CreateRound ==
  LET i == Len(prediction_history)
      r == NextRoundId
  IN /\ i > 0
     /\ r \in RoundIds
     /\ ~Published(i)
     /\ rounds' = [rounds EXCEPT ![r] =
                     [open |-> TRUE, resolved |-> FALSE,
                      direction |-> prediction_history[i].direction,
                      signature_hash |-> prediction_history[i].signature_hash,
                      timestamp |-> prediction_history[i].timestamp]]
     /\ last' = [op |-> "create_round", ret |-> "int", round |-> r, calls |-> {}]
     /\ UNCHANGED <<engine, pc, clock, outcomes, generated, host>>

\* update_prediction_result(round_id, actual_outcome); the ledger marks a round
\* resolved once its outcome has been reported
UpdatePredictionResult(round_id, actual_outcome, maxlog) ==
  LET i == FindPrediction(prediction_history, round_id)
      k == RecordedFor(round_id)
  IN /\ phase = "running"
     /\ IF k = 0 THEN UNCHANGED <<outcomes, rounds>>
        ELSE /\ Len(outcomes) < maxlog
             /\ outcomes' = Append(outcomes,
                                   prediction_history[k].direction = actual_outcome)
             /\ rounds' = [rounds EXCEPT ![round_id].resolved = TRUE]
     /\ IF i = 0
        THEN /\ last' = [op |-> "update_prediction_result", round |-> round_id,
                         outcome |-> actual_outcome,
                         ret |-> None, why |-> "no_prediction_found", calls |-> {}]
             /\ UNCHANGED engine
        ELSE LET was_correct == prediction_history[i].direction = actual_outcome
                 correct == IF was_correct THEN correct_predictions + 1
                            ELSE correct_predictions
                 losses == IF was_correct THEN 0 ELSE consecutive_losses + 1
             IN /\ correct_predictions' = correct
                /\ consecutive_losses' = losses
                /\ emergency_stop' = CheckEmergencyConditions(
                                       emergency_stop, losses, correct, total_predictions)
                /\ last' = [op |-> "update_prediction_result", round |-> round_id,
                            outcome |-> actual_outcome,
                            ret |-> None, why |-> "updated", calls |-> {}]
                /\ UNCHANGED <<total_predictions, prediction_history,
                               last_prediction_time>>
     /\ UNCHANGED <<pc, clock, generated, host>>

\* manual_override, called by POST /predictions/manual: no emergency check, no
\* confidence gate, nothing recorded; np.random.random raises on a negative
\* dimension and the handler then returns None
ManualOverrideGated(direction, confidence, features, signer) ==
  /\ phase = "running"
  /\ IF emergency_stop \/ config.SEQUENCE_LENGTH < 0 \/ config.FEATURE_COUNT < 0
     THEN last' = [op |-> "manual_override", ret |-> None, why |-> "exception",
                   calls |-> {}]
     ELSE LET prediction_result ==
                CreatePredictionResult(direction, confidence, features, signer, clock)
          IN last' = [op |-> "manual_override", ret |-> "PredictionResult",
                      result |-> [prediction_result EXCEPT !.metadata =
                                    ("manual_override" :> TRUE) @@ @],
                      features |-> features, signer |-> signer,
                      calls |-> {"sign_message"}]
  /\ UNCHANGED <<engine, pc, clock, rounds, outcomes, generated, host>>
ManualOverride(direction, confidence, features, signer) ==
  /\ phase = "running"
  /\ IF config.SEQUENCE_LENGTH < 0 \/ config.FEATURE_COUNT < 0
     THEN last' = [op |-> "manual_override", ret |-> None, why |-> "exception",
                   calls |-> {}]
     ELSE LET prediction_result ==
                CreatePredictionResult(direction, confidence, features, signer, clock)
          IN last' = [op |-> "manual_override", ret |-> "PredictionResult",
                      result |-> [prediction_result EXCEPT !.metadata =
                                    ("manual_override" :> TRUE) @@ @],
                      features |-> features, signer |-> signer,
                      calls |-> {"sign_message"}]
  /\ UNCHANGED <<engine, pc, clock, rounds, outcomes, generated, host>>

\* run_prediction_cycle up to the suspension of its generate_prediction
RunPredictionCycle(t) ==
  /\ cycle[t] # "running"
  /\ GenerateStart(t)
  /\ cycle' = [cycle EXCEPT ![t] = IF last'.ret = None THEN "no_prediction"
                                   ELSE "running"]

\* the except clause of run_prediction_cycle: the error is logged, nothing raised
CyclePropagate(error) == "raised"
CycleExceptReturn(error) == "error_logged"

\* run_prediction_cycle from the return of the feature fetch to its own return.
\* With a prediction it goes on to submit it; prediction_result['direction'],
\* evaluated for the call of create_round, raises TypeError (PredictionResult
\* is a dataclass and has no __getitem__), so the submission always fails
\* before create_round is entered and ends in the except clause.  Nothing is
\* awaited between the return of generate_prediction and that point.
ResumePredictionCycle(t, features, ready, prob, signer, cap) ==
  /\ cycle[t] = "running"
  /\ GenerateFinish(t, features, ready, prob, signer, cap)
  /\ cycle' = [cycle EXCEPT ![t] =
                 IF last'.ret = None THEN "no_prediction"
                 ELSE IF last'.ret = "PredictionResult"
                 THEN CycleExceptReturn("TypeError")
                 ELSE CycleExceptReturn(last'.ret)]

\* Config(): __post_init__ runs validate_config, which raises ValueError
ValidateConfig(c) ==
  /\ c.PRIVATE_KEY # ""
  /\ c.WEB3_PROVIDER_URL # ""
  /\ ~(c.CONFIDENCE_THRESHOLD < MIN_CONFIDENCE_THRESHOLD
         \/ c.CONFIDENCE_THRESHOLD > MAX_CONFIDENCE_THRESHOLD)
  /\ ~(c.SEQUENCE_LENGTH < MIN_SEQUENCE_LENGTH)
  /\ ~(c.BATCH_SIZE < 1)

\* PredixAI.__init__: the configuration is read and validated, then the engine
\* is built on it; a ValueError aborts the start
Construct ==
  /\ phase = "constructing"
  /\ IF ValidateConfig(config)
     THEN /\ phase' = "running"
          /\ last' = [op |-> "Config", ret |-> "Config", calls |-> {}]
     ELSE /\ phase' = "aborted"
          /\ last' = [op |-> "Config", ret |-> "raised", calls |-> {}]
  /\ UNCHANGED <<engine, pc, clock, rounds, outcomes, generated, config, cycle>>

\* update_model: load_model() succeeds or not
UpdateModelResetsTotal(loaded) ==
  /\ IF loaded
     THEN /\ consecutive_losses' = 0
          /\ emergency_stop' = FALSE
          /\ outcomes' = <<>>
          /\ total_predictions' = 0
     ELSE UNCHANGED <<consecutive_losses, emergency_stop, outcomes, total_predictions>>
  /\ last' = [op |-> "update_model", ret |-> None, loaded |-> loaded, calls |-> {}]
  /\ UNCHANGED <<correct_predictions, prediction_history,
                 last_prediction_time, pc, clock, rounds, generated, host>>
UpdateModel(loaded) ==
  /\ IF loaded
     THEN /\ consecutive_losses' = 0
          /\ emergency_stop' = FALSE
          /\ outcomes' = <<>>
     ELSE UNCHANGED <<consecutive_losses, emergency_stop, outcomes>>
  /\ last' = [op |-> "update_model", ret |-> None, loaded |-> loaded, calls |-> {}]
  /\ UNCHANGED <<total_predictions, correct_predictions, prediction_history,
                 last_prediction_time, pc, clock, rounds, generated, host>>

\* reset_emergency_stop (POST /emergency/reset)
ResetKeepsLosses ==
  /\ emergency_stop' = FALSE
  /\ consecutive_losses' = consecutive_losses
  /\ outcomes' = <<>>
  /\ last' = [op |-> "reset_emergency_stop", ret |-> None, calls |-> {},
              was |-> [emergency_stop |-> emergency_stop,
                       consecutive_losses |-> consecutive_losses]]
  /\ UNCHANGED <<total_predictions, correct_predictions, prediction_history,
                 last_prediction_time, pc, clock, rounds, generated, host>>
ResetEmergencyStop ==
  /\ emergency_stop' = FALSE
  /\ consecutive_losses' = 0
  /\ outcomes' = <<>>
  /\ last' = [op |-> "reset_emergency_stop", ret |-> None, calls |-> {},
              was |-> [emergency_stop |-> emergency_stop,
                       consecutive_losses |-> consecutive_losses]]
  /\ UNCHANGED <<total_predictions, correct_predictions, prediction_history,
                 last_prediction_time, pc, clock, rounds, generated, host>>

\* POST /emergency/stop
ApiEmergencyStop ==
  /\ emergency_stop' = TRUE
  /\ last' = [op |-> "api_emergency_stop", ret |-> None, calls |-> {}]
  /\ UNCHANGED <<consecutive_losses, total_predictions, correct_predictions,
                 prediction_history, last_prediction_time,
                 pc, clock, rounds, outcomes, generated, host>>

\* get_prediction_stats
GetPredictionStats ==
  /\ last' = [op |-> "get_prediction_stats", calls |-> {}, ret |-> "dict",
              stats |-> [total_predictions |-> total_predictions,
                         correct_predictions |-> correct_predictions,
                         accuracy |-> CalculateAccuracy(correct_predictions,
                                                        total_predictions),
                         consecutive_losses |-> consecutive_losses,
                         emergency_stop |-> emergency_stop,
                         last_prediction_time |-> last_prediction_time]]
  /\ UNCHANGED <<engine, pc, clock, rounds, outcomes, generated, host>>

\* get_recent_predictions(limit) (GET /predictions/recent)
GetRecentPredictions(limit) ==
  /\ phase = "running"
  /\ LET recent == LastLimit(prediction_history, limit)
     IN last' = [op |-> "get_recent_predictions", ret |-> "list", calls |-> {},
                 limit |-> limit,
                 result |-> [i \in 1..Len(recent) |-> RecentView(recent[i])]]
  /\ UNCHANGED <<engine, pc, clock, rounds, outcomes, generated, host>>

\* --------------------------------------------------------- specifications

\* the engine under every host operation
Next ==
  \/ \E t \in Tasks : GeneratePrediction(t)
  \/ \E t \in Tasks, f \in Features \cup {None}, ready \in BOOLEAN, p \in Probs :
        ResumePrediction(t, f, ready, p, "signed", MaxPredictions)
  \/ CreateRound
  \/ \E r \in RoundIds, o \in Outcomes : UpdatePredictionResult(r, o, MaxUpdates)
  \/ \E loaded \in BOOLEAN : UpdateModel(loaded)
  \/ ResetEmergencyStop
  \/ ApiEmergencyStop
  \/ GetPredictionStats
  \/ \E d \in Outcomes, c \in OverrideConfidences, f \in DummyFeatures :
        ManualOverride(d, c, f, "signed")

Spec == Init /\ [][Next]_vars

\* overlapping prediction cycles that all pass the gate, run past the capacity
\* of the history, with a reader
NextCap ==
  \/ \E t \in Tasks : GeneratePrediction(t)
  \/ \E t \in Tasks, f \in Features :
        ResumePrediction(t, f, TRUE, CONFIDENCE_THRESHOLD, "signed", HISTORY_CAP + CapSlack)
  \/ GetPredictionStats

SpecCap == Init /\ [][NextCap]_vars

\* the losing streak: MAX_CONSECUTIVE_LOSSES predictions are recorded and
\* published, and every round is resolved once, against the prediction
NextLoss ==
  \/ \E t \in Tasks : GeneratePrediction(t)
  \/ \E t \in Tasks, f \in Features :
        ResumePrediction(t, f, TRUE, CONFIDENCE_THRESHOLD, "signed", MAX_CONSECUTIVE_LOSSES)
  \/ CreateRound
  \/ \E r \in RoundIds :
        /\ rounds[r].open
        /\ ~rounds[r].resolved
        /\ UpdatePredictionResult(r, 1 - rounds[r].direction, MAX_CONSECUTIVE_LOSSES)

SpecLoss == Init /\ [][NextLoss]_vars

\* the engine with its risk state at any values its counters can take
\* (correct_predictions <= total_predictions, consecutive_losses at most the
\* number of incorrect outcomes), after total_predictions recorded predictions
RiskHistory(n) ==
  [i \in 1..n |->
     [CreatePredictionResult(1, CONFIDENCE_THRESHOLD, "window", "signed", 2 * i - 1)
        EXCEPT !.metadata = [total_predictions |-> i - 1,
                             consecutive_losses |-> 0,
                             accuracy |-> CalculateAccuracy(0, i - 1)]]]

InitRisk ==
  \E n \in 0..RiskMaxTotal :
    \E c \in 0..n :
      \E l \in 0..(n - c) :
        \E stop \in BOOLEAN :
          /\ total_predictions = n
          /\ correct_predictions = c
          /\ consecutive_losses = l
          /\ emergency_stop = stop
          /\ prediction_history = RiskHistory(n)
          /\ last_prediction_time = (IF n = 0 THEN NoTime ELSE 2 * n)
          /\ clock = 2 * n + 1
          /\ pc = [t \in Tasks |-> "idle"]
          /\ rounds = [r \in RoundIds |-> NoRound]
          /\ outcomes = <<>>
          /\ generated = RiskHistory(n)
          /\ last = [op |-> "init", ret |-> None, calls |-> {}]
          /\ config = DefaultConfig
          /\ phase = "running"
          /\ cycle = [t \in Tasks |-> "none"]

NextRisk ==
  \/ ResetEmergencyStop
  \/ GetPredictionStats

SpecRisk == InitRisk /\ [][NextRisk]_vars

\* _create_signature_hash as a function of its inputs: two attestations are
\* drawn, each a direction, a timestamp and the hex digest of a feature array,
\* and signed by the same signer
HexChars == {"1", "a"}
FeatureHashes == [1..HashWidth -> HexChars]
Attestations ==
  [direction : Outcomes, timestamp : 0..AttestMaxTime, features_hash : FeatureHashes]

AttestationData(a) ==
  [direction |-> a.direction,
   confidence |-> CONFIDENCE_THRESHOLD,
   timestamp |-> IsoFormat(a.timestamp),
   features_hash |-> a.features_hash,
   model_version |-> "v1.0"]

InitAttest ==
  /\ consecutive_losses = 0
  /\ total_predictions = 0
  /\ correct_predictions = 0
  /\ prediction_history = <<>>
  /\ emergency_stop = FALSE
  /\ last_prediction_time = NoTime
  /\ pc = [t \in Tasks |-> "idle"]
  /\ clock = 1
  /\ rounds = [r \in RoundIds |-> NoRound]
  /\ outcomes = <<>>
  /\ generated = <<>>
  /\ \E a \in Attestations, b \in Attestations :
       last = [op |-> "init", ret |-> None, calls |-> {}, first |-> a, second |-> b]
  /\ config = DefaultConfig
  /\ phase = "running"
  /\ cycle = [t \in Tasks |-> "none"]

\* _create_signature_hash called for the first and for the second attestation
CreateSignatureHashes ==
  /\ last.op = "init"
  /\ last' = [op |-> "_create_signature_hash", ret |-> "str",
              calls |-> {"sign_message"},
              first |-> last.first, second |-> last.second,
              hashes |-> <<CreateSignatureHash(AttestationData(last.first), "signed"),
                           CreateSignatureHash(AttestationData(last.second), "signed")>>]
  /\ UNCHANGED <<engine, pc, clock, rounds, outcomes, generated, host>>

NextAttest == CreateSignatureHashes

SpecAttest == InitAttest /\ [][NextAttest]_vars

\* predictions recorded by overlapping calls and manual overrides (which are
\* not recorded), with a reader of the history
NextRecent ==
  \/ \E t \in Tasks : GeneratePrediction(t)
  \/ \E t \in Tasks, f \in Features \cup {None}, p \in Probs :
        ResumePrediction(t, f, TRUE, p, "signed", MaxPredictions)
  \/ \E d \in Outcomes, c \in OverrideConfidences, f \in DummyFeatures :
        ManualOverride(d, c, f, "signed")
  \/ \E limit \in 0..MaxLimit : GetRecentPredictions(limit)

SpecRecent == Init /\ [][NextRecent]_vars

\* overlapping prediction cycles run past the capacity of the history, with
\* the operations that do not record: manual overrides, model updates, the
\* manual halt and reset
NextCount ==
  \/ \E t \in Tasks : GeneratePrediction(t)
  \/ \E t \in Tasks, f \in Features :
        ResumePrediction(t, f, TRUE, CONFIDENCE_THRESHOLD, "signed", HISTORY_CAP + CapSlack)
  \/ \E d \in Outcomes, f \in DummyFeatures :
        ManualOverride(d, OVERRIDE_CONFIDENCE, f, "signed")
  \/ \E loaded \in BOOLEAN : UpdateModel(loaded)
  \/ ApiEmergencyStop
  \/ ResetEmergencyStop

SpecCount == Init /\ [][NextCount]_vars

\* the outcome-update code from the lookup on, as it behaves once the lookup
\* matches: the engine after n recorded predictions, each carrying the round_id
\* attribute the lookup tests for (nothing in the engine or the host sets it),
\* each published as the round of that id; then outcome updates, resets,
\* model updates, manual halts and readers, in any order
TaggedHistory(n) ==
  [i \in 1..n |-> ("round_id" :> i) @@ RiskHistory(n)[i]]

InitOutcome ==
  \E n \in {1, 2, MIN_PREDICTIONS_FOR_ACCURACY} :
    /\ total_predictions = n
    /\ correct_predictions = 0
    /\ consecutive_losses = 0
    /\ emergency_stop = FALSE
    /\ prediction_history = TaggedHistory(n)
    /\ last_prediction_time = 2 * n
    /\ clock = 2 * n + 1
    /\ pc = [t \in Tasks |-> "idle"]
    /\ rounds = [r \in RoundIds |->
                  IF r <= n
                  THEN [open |-> TRUE, resolved |-> FALSE,
                        direction |-> TaggedHistory(n)[r].direction,
                        signature_hash |-> TaggedHistory(n)[r].signature_hash,
                        timestamp |-> TaggedHistory(n)[r].timestamp]
                  ELSE NoRound]
    /\ outcomes = <<>>
    /\ generated = TaggedHistory(n)
    /\ last = [op |-> "init", ret |-> None, calls |-> {}]
    /\ config = DefaultConfig
    /\ phase = "running"
    /\ cycle = [t \in Tasks |-> "none"]

NextOutcome ==
  \/ \E r \in RoundIds, o \in Outcomes :
        /\ correct_predictions < OutcomeMaxCorrect
        /\ consecutive_losses <= MAX_CONSECUTIVE_LOSSES
        /\ UpdatePredictionResult(r, o, OutcomeMaxUpdates)
  \/ ResetEmergencyStop
  \/ \E loaded \in BOOLEAN : UpdateModel(loaded)
  \/ ApiEmergencyStop
  \/ GetPredictionStats

SpecOutcome == InitOutcome /\ [][NextOutcome]_vars

\* the scheduled prediction cycle with the manual halt and reset
NextCycle ==
  \/ \E t \in Tasks : RunPredictionCycle(t)
  \/ \E t \in Tasks, f \in Features \cup {None}, ready \in BOOLEAN, p \in Probs :
        ResumePredictionCycle(t, f, ready, p, "signed", MaxPredictions)
  \/ ApiEmergencyStop
  \/ ResetEmergencyStop

SpecCycle == Init /\ [][NextCycle]_vars

\* the start of the application on any environment, followed by cycles and
\* outcome updates of the engine it built
EnvConfigs ==
  [PRIVATE_KEY : {"", "0xkey"},
   WEB3_PROVIDER_URL : {"https://rpc-amoy.polygon.technology/"},
   BATCH_SIZE : {BATCH_SIZE},
   CONFIDENCE_THRESHOLD : {40, CONFIDENCE_THRESHOLD, 110},
   MAX_CONSECUTIVE_LOSSES : {0, MAX_CONSECUTIVE_LOSSES},
   EMERGENCY_STOP_THRESHOLD : {-10, EMERGENCY_STOP_THRESHOLD, 150},
   SEQUENCE_LENGTH : {5, SEQUENCE_LENGTH},
   FEATURE_COUNT : {0, FEATURE_COUNT}]

InitConfig ==
  /\ consecutive_losses = 0
  /\ total_predictions = 0
  /\ correct_predictions = 0
  /\ prediction_history = <<>>
  /\ emergency_stop = FALSE
  /\ last_prediction_time = NoTime
  /\ pc = [t \in Tasks |-> "idle"]
  /\ clock = 1
  /\ rounds = [r \in RoundIds |-> NoRound]
  /\ outcomes = <<>>
  /\ generated = <<>>
  /\ last = [op |-> "init", ret |-> None, calls |-> {}]
  /\ config \in EnvConfigs
  /\ phase = "constructing"
  /\ cycle = [t \in Tasks |-> "none"]

NextConfig ==
  \/ Construct
  \/ \E t \in Tasks : RunPredictionCycle(t)
  \/ \E t \in Tasks, p \in Probs :
        ResumePredictionCycle(t, "window", TRUE, p, "signed", MaxPredictions)
  \/ \E r \in RoundIds, o \in Outcomes : UpdatePredictionResult(r, o, MaxUpdates)

SpecConfig == InitConfig /\ [][NextConfig]_vars

\* the engine against collaborators that fail in every way their interface
\* allows: the feature provider returns nothing or raises, predict raises, the
\* sign call fails inside the signer (which then returns "") or raises
NextFail ==
  \/ \E t \in Tasks : GeneratePrediction(t)
  \/ \E t \in Tasks, f \in Features \cup {None, Raise}, ready \in BOOLEAN,
        p \in Probs, signer \in Signers :
        ResumePrediction(t, f, ready, p, signer, MaxPredictions)
  \/ \E r \in RoundIds, o \in Outcomes : UpdatePredictionResult(r, o, MaxUpdates)

SpecFail == Init /\ [][NextFail]_vars

\* ------------------------------------------------------------- properties

\* the stop condition, as the specification states it
StopCondition ==
  \/ consecutive_losses >= MAX_CONSECUTIVE_LOSSES
  \/ /\ total_predictions >= MIN_PREDICTIONS_FOR_ACCURACY
     /\ correct_predictions * 100 < EMERGENCY_STOP_THRESHOLD * total_predictions

\* length of the trailing run of incorrect outcomes of a log
RECURSIVE TrailingRun(_)
TrailingRun(log) ==
  IF log = <<>> \/ log[Len(log)] THEN 0
  ELSE 1 + TrailingRun(SubSeq(log, 1, Len(log) - 1))

AllIncorrect(log) == \A i \in 1..Len(log) : ~log[i]

\* the recognized ranges of the options the engine consumes, as the
\* specification states them
RecognizedConfig ==
  /\ config.SEQUENCE_LENGTH >= 10
  /\ config.FEATURE_COUNT > 0
  /\ config.CONFIDENCE_THRESHOLD >= 50 /\ config.CONFIDENCE_THRESHOLD <= 100
  /\ config.MAX_CONSECUTIVE_LOSSES >= 1
  /\ config.EMERGENCY_STOP_THRESHOLD >= 0 /\ config.EMERGENCY_STOP_THRESHOLD <= 100

\* number of correct outcomes of a log
CorrectCount(log) == Cardinality({i \in 1..Len(log) : log[i]})

\* C1: a generate_prediction called while emergency_stop is true returns None,
\* calls neither the feature provider nor the classifier, and changes neither
\* the history nor any counter.
C1_HaltedShortCircuit ==
  [][(emergency_stop /\ last'.op = "generate_prediction")
       => /\ last'.ret = None
          /\ last'.calls = {}
          /\ UNCHANGED <<engine, generated, pc>>]_vars

C1_Witness ==
  /\ emergency_stop
  /\ last.op = "generate_prediction"
  /\ last.why = "halted"
  /\ Len(prediction_history) > 0

\* C2: emergency_stop turns from false to true only in a step after which
\* consecutive_losses >= MAX_CONSECUTIVE_LOSSES or (total_predictions >= 10 and
\* accuracy < EMERGENCY_STOP_THRESHOLD).
C2_StopOnlyOnCondition ==
  [][(~emergency_stop /\ emergency_stop') => StopCondition']_vars

\* C3: consecutive_losses equals the length of the trailing run of incorrect
\* outcomes among the outcome updates made for recorded predictions.
C3_LossesAreTrailingRun ==
  consecutive_losses = TrailingRun(outcomes)

\* C4: with MAX_CONSECUTIVE_LOSSES = 3, three incorrect outcomes for three
\* recorded predictions leave emergency_stop false after the first two and
\* true after the third, and a generate_prediction that follows returns None
\* without calling the feature provider.
C4_ThirdLossHalts ==
  /\ (Len(outcomes) < MAX_CONSECUTIVE_LOSSES) => ~emergency_stop
  /\ (Len(outcomes) = MAX_CONSECUTIVE_LOSSES /\ AllIncorrect(outcomes))
       => /\ emergency_stop
          /\ last.op = "generate_prediction"
               => (last.ret = None /\ last.calls = {})

\* C5: update_prediction_result(r, outcome) for a recorded prediction that was
\* published as round r applies the outcome: a correct one adds 1 to
\* correct_predictions and zeroes consecutive_losses, an incorrect one adds 1
\* to consecutive_losses.
C5_UpdateAppliesOutcome ==
  [][(last'.op = "update_prediction_result" /\ RecordedFor(last'.round) # 0)
       => IF prediction_history[RecordedFor(last'.round)].direction = last'.outcome
          THEN correct_predictions' = correct_predictions + 1
               /\ consecutive_losses' = 0
          ELSE consecutive_losses' = consecutive_losses + 1
               /\ correct_predictions' = correct_predictions]_vars

\* C6: update_prediction_result for a round that no recorded prediction was
\* published as raises nothing and leaves the counters, emergency_stop and the
\* history unchanged.
C6_UnknownRoundNoOp ==
  [][(last'.op = "update_prediction_result" /\ RecordedFor(last'.round) = 0)
       => /\ last'.ret = None
          /\ last'.why = "no_prediction_found"
          /\ UNCHANGED engine]_vars

C6_Witness ==
  /\ last.op = "update_prediction_result"
  /\ last.why = "no_prediction_found"
  /\ ~rounds[last.round].open
  /\ Len(prediction_history) > 0

\* C7: the history never holds more than 100 entries in any state a reader can
\* observe, also between the steps of overlapping generate_prediction calls.
C7_HistoryBounded ==
  Len(prediction_history) <= HISTORY_CAP

C7_Witness ==
  /\ Len(generated) > HISTORY_CAP
  /\ Len(prediction_history) = HISTORY_CAP
  /\ \E t \in Tasks : pc[t] = "fetching"
  /\ last.op = "get_prediction_stats"

\* C8: after n successful generate_prediction calls the history holds exactly
\* the last min(n, 100) generated predictions, in generation order.
C8_Fifo ==
  LET n == Len(generated)
      m == IF n < HISTORY_CAP THEN n ELSE HISTORY_CAP
  IN /\ Len(prediction_history) = m
     /\ \A i \in 1..m : prediction_history[i] = generated[n - m + i]

C8_Witness ==
  /\ Len(generated) = HISTORY_CAP + 1
  /\ prediction_history[HISTORY_CAP] = generated[HISTORY_CAP + 1]
  /\ \A i \in 1..Len(prediction_history) : prediction_history[i] # generated[1]

\* C9: when the classifier returns a confidence below CONFIDENCE_THRESHOLD,
\* generate_prediction returns None without a signing call and leaves the
\* history, total_predictions and last_prediction_time unchanged; a confidence
\* equal to the threshold is recorded and returned.
C9_LowConfidenceDropped ==
  [][(last'.op = "generate_prediction_return" /\ "confidence" \in DOMAIN last')
       => IF last'.confidence < CONFIDENCE_THRESHOLD
          THEN /\ last'.ret = None
               /\ "sign_message" \notin last'.calls
               /\ UNCHANGED <<prediction_history, total_predictions,
                              last_prediction_time>>
          ELSE /\ last'.ret = "PredictionResult"
               /\ total_predictions' = total_predictions + 1]_vars

C9_Witness ==
  /\ last.op = "generate_prediction_return"
  /\ last.why = "low_confidence"
  /\ last.confidence < CONFIDENCE_THRESHOLD
  /\ Len(prediction_history) > 0

\* C10: at most one generate_prediction is in flight at any time.
C10_SingleFlight ==
  Cardinality({t \in Tasks : pc[t] # "idle"}) <= 1

\* C11: manual_override is never gated: under the default configuration every
\* call, also while emergency_stop is true, returns a PredictionResult with its
\* features hash, its signature hash and metadata manual_override = true, and
\* leaves emergency_stop (and the rest of the engine) as it was
C11_OverrideNeverGated ==
  [][last'.op = "manual_override" =>
       /\ last'.ret = "PredictionResult"
       /\ last'.result.features_hash = Sha256(last'.features)
       /\ "signature_hash" \in DOMAIN last'.result
       /\ last'.result.metadata.manual_override = TRUE
       /\ emergency_stop' = emergency_stop
       /\ UNCHANGED engine]_vars
C11_Witness ==
  /\ last.op = "manual_override"
  /\ emergency_stop
  /\ last.ret = "PredictionResult"
  /\ last.result.metadata.manual_override = TRUE

\* C12: in every reachable state correct_predictions <= total_predictions,
\* whatever sequence of generate_prediction, update_prediction_result (repeated
\* for the same round included), manual_override, reset_emergency_stop and
\* update_model led to it
C12_CorrectAtMostTotal == correct_predictions <= total_predictions
C12_Witness ==
  /\ last.op = "update_prediction_result"
  /\ total_predictions >= 1
  /\ Cardinality({r \in RoundIds : rounds[r].resolved}) = 1
  /\ Len(outcomes) = 2
  /\ outcomes[1] /\ outcomes[2]
  /\ rounds[last.round].resolved

C14_ResetFrame ==
  [][last'.op = "reset_emergency_stop" =>
       /\ emergency_stop' = FALSE
       /\ consecutive_losses' = 0
       /\ UNCHANGED <<total_predictions, correct_predictions,
                      last_prediction_time, prediction_history>>]_vars
C14_Witness ==
  /\ last.op = "reset_emergency_stop"
  /\ last.was.emergency_stop
  /\ last.was.consecutive_losses > 0
  /\ correct_predictions > 0
  /\ Len(prediction_history) > 0
  /\ ~emergency_stop /\ consecutive_losses = 0

\* C15: generate_prediction and update_prediction_result never propagate an
\* exception, whichever collaborator fails: generate_prediction ends with a
\* PredictionResult or None, and when it returns None the history and
\* total_predictions are unchanged; update_prediction_result returns normally
C15_NoExceptionEscapes ==
  [][/\ last'.op \in {"generate_prediction", "generate_prediction_return"}
          => /\ last'.ret \in {None, "pending", "PredictionResult"}
             /\ last'.ret = None
                  => UNCHANGED <<prediction_history, total_predictions>>
     /\ last'.op = "update_prediction_result" => last'.ret = None]_vars
C15_Witness ==
  /\ last.op = "generate_prediction_return"
  /\ last.why = "exception"
  /\ last.ret = None
  /\ Len(prediction_history) > 0
  /\ \E i \in 1..Len(prediction_history) :
        prediction_history[i].signature_hash
          = Sha256(StrOf(PredictionData(prediction_history[i].direction,
                                        prediction_history[i].confidence, "window",
                                        prediction_history[i].timestamp)))

\* C16: a prediction whose sign call failed has as signature_hash the digest
\* of the canonical message (direction, ISO timestamp, features hash) and a
\* degraded-attestation flag in its metadata; a prediction whose sign call
\* succeeded has no such flag
C16_DegradedAttestation ==
  (last.op = "generate_prediction_return" /\ last.ret = "PredictionResult")
    => IF last.signer = "signed"
       THEN "degraded_attestation" \notin DOMAIN last.result.metadata
       ELSE /\ last.result.signature_hash
                 = Sha256(Message(last.result.direction,
                                  IsoFormat(last.result.timestamp),
                                  last.result.features_hash))
            /\ "degraded_attestation" \in DOMAIN last.result.metadata

\* C17: with a deterministic signer two attestations with the same direction,
\* timestamp and features hash have the same signature_hash, and two that
\* differ in any of the three have different signature hashes (the hash and
\* the signature being injective)
C17_AttestationInjective ==
  last.op = "_create_signature_hash"
    => (last.first = last.second <=> last.hashes[1] = last.hashes[2])
C17_Witness ==
  /\ last.op = "_create_signature_hash"
  /\ last.first.direction = last.second.direction
  /\ last.first.features_hash = last.second.features_hash
  /\ last.first.timestamp # last.second.timestamp
  /\ last.first.timestamp \div TicksPerSecond = last.second.timestamp \div TicksPerSecond
  /\ last.hashes[1] # last.hashes[2]

\* C18: the accuracy get_prediction_stats reports is exactly 0 when
\* total_predictions is 0 and exactly correct_predictions / total_predictions
\* otherwise, and the same stats report total_predictions
C18_StatsAccuracy ==
  last.op = "get_prediction_stats"
    => LET accuracy == last.stats.accuracy
       IN /\ accuracy[2] > 0
          /\ total_predictions = 0 => accuracy[1] = 0
          /\ total_predictions > 0
               => accuracy[1] * total_predictions = correct_predictions * accuracy[2]
          /\ last.stats.total_predictions = total_predictions
C18_Witness ==
  /\ last.op = "get_prediction_stats"
  /\ 0 < correct_predictions
  /\ correct_predictions < total_predictions
  /\ last.stats.accuracy = <<correct_predictions, total_predictions>>

\* C19: when run_prediction_cycle has recorded a prediction and its submission
\* to the ledger fails, no round is opened, the prediction is in the history,
\* total_predictions keeps its incremented value and the cycle ends without
\* raising
C19_FailedSubmitKeepsState ==
  [][\A t \in Tasks :
       (cycle[t] = "running" /\ cycle'[t] # "running"
          /\ last'.ret = "PredictionResult" /\ rounds' = rounds)
         => /\ cycle'[t] = "error_logged"
            /\ prediction_history'
                 = KeepLast100(Append(prediction_history, last'.result))
            /\ total_predictions' = total_predictions + 1]_vars
C19_Witness ==
  /\ \E t \in Tasks : cycle[t] = "error_logged"
  /\ last.op = "generate_prediction_return"
  /\ last.ret = "PredictionResult"
  /\ total_predictions = MaxPredictions
  /\ prediction_history[Len(prediction_history)] = last.result
  /\ \A r \in RoundIds : ~rounds[r].open

\* C20: no engine runs a prediction cycle or an outcome update on a
\* configuration outside the recognized ranges (SEQUENCE_LENGTH >= 10,
\* FEATURE_COUNT > 0, CONFIDENCE_THRESHOLD in [0.5, 1.0],
\* MAX_CONSECUTIVE_LOSSES >= 1, EMERGENCY_STOP_THRESHOLD in [0, 1]):
\* constructing Config with such a value raises
C20_InvalidConfigIsFatal ==
  (last.op \in {"generate_prediction", "generate_prediction_return",
                "update_prediction_result"})
    => RecognizedConfig

\* C21: get_recent_predictions(limit) returns, for every limit >= 0, exactly
\* the min(limit, len(history)) most recently recorded predictions, in
\* generation order with the most recent last, and changes no engine state
C21_RecentIsSuffix ==
  [][last'.op = "get_recent_predictions" =>
       LET n == IF last'.limit < Len(prediction_history) THEN last'.limit
                ELSE Len(prediction_history)
       IN /\ Len(last'.result) = n
          /\ \A i \in 1..Len(last'.result) :
               Len(prediction_history) - n + i \in 1..Len(prediction_history)
               /\ last'.result[i]
                    = RecentView(prediction_history[Len(prediction_history) - n + i])
          /\ UNCHANGED engine]_vars

\* C22: consecutive_losses and emergency_stop are changed only by
\* update_prediction_result and reset_emergency_stop; every other operation
\* of the host, update_model and the API endpoints included, leaves both
\* unchanged
C22_RiskFieldsFrame ==
  [][last'.op \notin {"update_prediction_result", "reset_emergency_stop"}
       => UNCHANGED <<consecutive_losses, emergency_stop>>]_vars

\* C23: a generate_prediction that passes the halt check, the feature fetch,
\* the classifier call and the confidence gate adds exactly 1 to
\* total_predictions, sets last_prediction_time, appends exactly one entry to
\* the history (the oldest is evicted at capacity) and returns that entry,
\* which is the last element of the history; correct_predictions,
\* consecutive_losses and emergency_stop are unchanged
C23_RecordedOnce ==
  [][(last'.op = "generate_prediction_return" /\ last'.ret = "PredictionResult")
       => /\ total_predictions' = total_predictions + 1
          /\ last_prediction_time' # NoTime
          /\ last_prediction_time' > last_prediction_time
          /\ last_prediction_time' >= last'.result.timestamp
          /\ Len(prediction_history') >= 1
          /\ prediction_history'[Len(prediction_history')] = last'.result
          /\ IF Len(prediction_history) < HISTORY_CAP
             THEN prediction_history' = Append(prediction_history, last'.result)
             ELSE /\ Len(prediction_history') = HISTORY_CAP
                  /\ \A i \in 1..(HISTORY_CAP - 1) :
                       prediction_history'[i] = prediction_history[i + 1]
          /\ UNCHANGED <<correct_predictions, consecutive_losses,
                         emergency_stop>>]_vars
C23_Witness ==
  /\ last.op = "generate_prediction_return"
  /\ last.ret = "PredictionResult"
  /\ total_predictions = HISTORY_CAP + 1
  /\ Len(prediction_history) = HISTORY_CAP
  /\ prediction_history[HISTORY_CAP] = last.result
  /\ last_prediction_time > last.result.timestamp

\* C24: the metadata of a recorded prediction is a snapshot of the counters at
\* its creation: the k-th prediction ever recorded has metadata
\* total_predictions = k - 1, so along the history it grows by 1 per entry,
\* also when generate_prediction calls overlap
C24_MetadataSnapshot ==
  /\ \A k \in 1..Len(generated) : generated[k].metadata.total_predictions = k - 1
  /\ \A i \in 1..(Len(prediction_history) - 1) :
       prediction_history[i + 1].metadata.total_predictions
         = prediction_history[i].metadata.total_predictions + 1
C24_Witness ==
  /\ Len(generated) = HISTORY_CAP + 1
  /\ generated[Len(generated)].metadata.total_predictions = HISTORY_CAP
  /\ prediction_history[1].metadata.total_predictions = 1
  /\ \E t \in Tasks : pc[t] = "fetching"

\* C25: no prediction is recorded while the engine is halted: in every step
\* that appends to the history or increases total_predictions, emergency_stop
\* is false, also when the stop was activated while the generate_prediction
\* call was suspended
C25_NoRecordWhileHalted ==
  [][(total_predictions' > total_predictions \/ generated' # generated)
       => (~emergency_stop /\ ~emergency_stop')]_vars

\* C26: in every reachable state len(prediction_history) =
\* min(total_predictions, 100), and no operation decreases or resets
\* total_predictions
C26_HistoryCountsTotal ==
  /\ [](Len(prediction_history)
         = IF total_predictions < HISTORY_CAP THEN total_predictions ELSE HISTORY_CAP)
  /\ [][total_predictions' >= total_predictions]_vars
C26_Witness ==
  /\ total_predictions > HISTORY_CAP
  /\ Len(prediction_history) = HISTORY_CAP
  /\ last.op = "update_model"
  /\ last.loaded
  /\ \E t \in Tasks : pc[t] = "fetching"

\* C27: with MAX_CONSECUTIVE_LOSSES >= 1, in every state between operations
\* consecutive_losses >= MAX_CONSECUTIVE_LOSSES implies that emergency_stop is
\* true, for every interleaving of outcome updates, reset_emergency_stop,
\* update_model, the /emergency/stop endpoint and get_prediction_stats
C27_LossesImplyStop ==
  (config.MAX_CONSECUTIVE_LOSSES >= 1
     /\ consecutive_losses >= config.MAX_CONSECUTIVE_LOSSES)
    => emergency_stop
C27_Witness ==
  /\ consecutive_losses >= config.MAX_CONSECUTIVE_LOSSES
  /\ emergency_stop
  /\ last.op = "update_prediction_result"
  /\ last.why = "updated"
  /\ Len(outcomes) = MAX_CONSECUTIVE_LOSSES
  /\ AllIncorrect(outcomes)

C29_StopHeldUntilReset ==
  [][(emergency_stop /\ ~emergency_stop') => last'.op = "reset_emergency_stop"]_vars

\* C30: a prediction cycle in which generate_prediction returns a
\* PredictionResult calls create_round exactly once, with the direction and
\* signature_hash of that result; a cycle in which it returns None does not
\* call create_round
C30_CycleSubmitsOnce ==
  [][\A t \in Tasks :
       (cycle[t] = "running" /\ cycle'[t] # "running")
         => IF last'.ret = "PredictionResult"
            THEN \E r \in RoundIds :
                   /\ ~rounds[r].open
                   /\ rounds'[r].open
                   /\ rounds'[r].direction = last'.result.direction
                   /\ rounds'[r].signature_hash = last'.result.signature_hash
                   /\ \A q \in RoundIds \ {r} : rounds'[q] = rounds[q]
            ELSE rounds' = rounds]_vars

====
